---- MODULE Spec2Model ----
(***************************************************************************)
(* Model of the per-video playback controller of src/covid/video.js.       *)
(*                                                                         *)
(* Times are integers counting ticks of 1/90 s, so that one third of a     *)
(* second (30 ticks), 0.2 s (18 ticks) and 1.5/3 s (45 ticks) are exact.   *)
(* A JavaScript value is a record [kind, val]: a finite number, NaN,       *)
(* Infinity, or null/undefined.                                            *)
(*                                                                         *)
(* The load handler declares video, the controls, seek_active and          *)
(* seek_pending with `var` inside the body of its for loop: they are       *)
(* variables of the load handler, one of each for the whole page, and      *)
(* every closure created in every iteration reads and writes the same      *)
(* ones.  After the loop `video` and the controls are those of the last    *)
(* video of the page.                                                      *)
(*                                                                         *)
(* Spec is the controller on a page whose videos have every control;       *)
(* ControlsSpec the same with controls missing; MediaSpec the playback     *)
(* state with its 'play' and 'pause' events; FrameSpec the frame steps     *)
(* from every time; SeekedSpec the variant of src/unnamed/part_001 that    *)
(* clears the markers after 'seeked'; LegacySpec the keydown listener of   *)
(* src/unnamed/part_000.                                                   *)
(***************************************************************************)
EXTENDS Integers, FiniteSets, Sequences, TLC

\* ------------------------------------------------------------ bounds
NumVideos == 2
Duration == 120
TimeStep == 120

\* 'play' and 'pause' events of one video waiting to be handled
MaxEvents == 2

\* 'seeked' events handled on a page of the 'seeked' variant
MaxSeeked == 3

\* a stream has no end: its times are followed up to MaxTime ticks
MaxTime == 180

\* ------------------------------------------------- program constants
\* one third of a second: the 3 of `current_time() * 3` and `/ 3`
FrameTicks == 30
\* 1.5 / 3 seconds: the offset of a frame step
OffsetTicks == 45
\* 0.2 seconds: the clamp at the start and at the end
ClampTicks == 18
\* 1.2 / 3 seconds: the offset of a frame step of the 'seeked' variant
SeekedOffsetTicks == 36

\* ------------------------------------------------------------ values
Num(n) == [kind |-> "num", val |-> n]
NaN == [kind |-> "nan", val |-> 0]
Inf == [kind |-> "inf", val |-> 0]
Null == [kind |-> "null", val |-> 0]

Videos == 1..NumVideos
SeekButtons == {"rewind", "prev", "next", "forward"}
Times == {t \in 0..Duration : t % TimeStep = 0} \cup {Duration}
\* the durations of the videos of the page: unknown until the metadata has
\* loaded, then that of a file or that of a stream
Durations == {NaN, Num(Duration), Inf}

isFinite(x) == x.kind = "num"

\* x != null (loose): false for null and undefined only
NotNull(x) == x.kind # "null"

\* a != b (loose inequality of two numbers, NaN unequal to everything)
LooseNeq(a, b) ==
    IF a.kind = "nan" \/ b.kind = "nan" THEN TRUE
    ELSE IF a.kind = "num" /\ b.kind = "num" THEN a.val # b.val
    ELSE a.kind # b.kind

\* A time of n ticks is the double nearest to n/90.  The difference
\* d - 0.2 of doubles is rounded once more and need not be the double
\* nearest to (n - 18)/90: for the durations of up to 250 ticks listed
\* here it lies above it, respectively below it.
ClampRoundsUp ==
    {29, 55, 58, 67, 72, 78, 83, 84, 89, 93, 94, 95, 99, 100, 105, 106,
     110, 116, 121, 122, 127, 133, 138, 144, 150, 155, 161, 166, 167,
     172, 178, 186, 187, 188, 189, 197}

ClampRoundsDown ==
    {19, 20, 21, 22, 23, 24, 26, 27, 30, 33, 34, 37, 40, 46, 49, 52, 54,
     57, 60, 63, 65, 66, 71, 76, 77, 82, 87, 88, 104, 184, 185, 196, 204,
     205, 206, 207, 208, 215, 216, 217, 218, 219, 227, 228, 229, 230,
     238, 239, 240, 241, 249, 250}

\* d - 0.2: the ticks of the difference and the side of them on which the
\* double lies
MinusClamp(d) ==
    IF d.kind = "num"
    THEN [kind |-> "num", val |-> d.val - ClampTicks,
          ulp |-> IF d.val \in ClampRoundsUp THEN 1
                  ELSE IF d.val \in ClampRoundsDown THEN 0 - 1 ELSE 0]
    ELSE d

\* the side of its ticks on which a number lies
Ulp(a) == IF "ulp" \in DOMAIN a THEN a.ulp ELSE 0

\* a < b on numbers: false when either is NaN
Less(a, b) ==
    IF a.kind = "nan" \/ b.kind = "nan" THEN FALSE
    ELSE IF a.kind = "num" /\ b.kind = "num"
    THEN a.val < b.val \/ (a.val = b.val /\ Ulp(a) < Ulp(b))
    ELSE a.kind = "num" /\ b.kind = "inf"

\* Math.ceil(t * 3) and Math.floor(t * 3), for t >= 0 in ticks
CeilFrames(u) == (u + FrameTicks - 1) \div FrameTicks
FloorFrames(u) == u \div FrameTicks

\* ------------------------------------------------------------- state
VARIABLES
    paused,        \* video.paused of each video element
    loop,          \* video.loop of each video element
    currentTime,   \* video.currentTime of each video element
    duration,      \* video.duration of each video element
    seek_active,   \* var seek_active of the load handler
    seek_pending,  \* var seek_pending of the load handler
    timers,        \* number of window.setTimeout callbacks not yet run
    slider_value,  \* slider_range.value of each video's slider
    seeking,       \* buttons of each video that carry the class 'seeking'
    looping,       \* whether each video's loop button carries 'looping'
    focus,         \* the video whose key target has the input focus
    applied,       \* the value the controller last assigned to a currentTime
    controls,      \* the controls each video has on the page
    events,        \* 'play' and 'pause' events of each video not yet handled
    play_class,    \* 'playing' / 'paused' on each video's play button
    started,       \* the last user operation started playback
    rt,            \* the frame-step round trip (FrameSpec only)
    sk             \* the 'seeked' variant of the controller (SeekedSpec only)

vars == <<paused, loop, currentTime, duration, seek_active, seek_pending,
          timers, slider_value, seeking, looping, focus, applied, controls,
          events, play_class, started, rt, sk>>

\* `video` (and with it every control) after the loop of the load handler
video == NumVideos

\* the elements looked up by id for each video
Controls ==
    {"key_target", "play", "loop", "rewind", "prev", "next", "forward",
     "slider"}

\* --------------------------------------------------------- the page
\* The media elements and controls of the page with the variables of the
\* load handler: what a handler reads and writes.  A handler is a function
\* from pages to pages; `error` is set when it ends in an uncaught exception
\* and `assigns` counts its assignments to video.currentTime.
Page ==
    [paused |-> paused, loop |-> loop, currentTime |-> currentTime,
     duration |-> duration, seek_active |-> seek_active,
     seek_pending |-> seek_pending, timers |-> timers,
     slider |-> slider_value, seeking |-> seeking, looping |-> looping,
     focus |-> focus, applied |-> applied, controls |-> controls,
     events |-> events, play_class |-> play_class,
     error |-> FALSE, assigns |-> 0]

\* if (x): the closure's variable x refers to an element
Has(c, x) == x \in c.controls[video]

\* video.pause(): a 'pause' event follows when the media was not paused
MediaPause(c) ==
    IF c.paused[video] THEN c
    ELSE [c EXCEPT !.paused[video] = TRUE,
                   !.events[video] = Append(@, "pause")]

\* video.ended: at the end of the media and not looping
Ended(c) ==
    /\ isFinite(c.duration[video])
    /\ c.currentTime[video] = c.duration[video]
    /\ ~c.loop[video]

\* video.play(): media that has ended starts over from 0; a 'play' event
\* follows when the media was paused
MediaPlay(c) ==
    LET c1 == IF Ended(c) THEN [c EXCEPT !.currentTime[video] = Num(0)]
              ELSE c
    IN  IF ~c1.paused[video] THEN c1
        ELSE [c1 EXCEPT !.paused[video] = FALSE,
                        !.events[video] = Append(@, "play")]

\* the position a media element of duration d takes when t is assigned to
\* its currentTime: the nearest position of the medium
MediaSeek(t, d) == IF t < 0 THEN 0 ELSE IF t > d THEN d ELSE t

\* slider_range.value = time, if there is a slider
SetSlider(c, time) ==
    IF Has(c, "slider") THEN [c EXCEPT !.slider[video] = time] ELSE c

\* button.classList.add('seeking'), if there is the button
Mark(c, button) ==
    IF Has(c, button) THEN [c EXCEPT !.seeking[video] = @ \cup {button}]
    ELSE c

\* video.currentTime = time, then window.setTimeout; a non-finite time
\* throws a TypeError in between
Assign(c, time) ==
    IF isFinite(time)
    THEN [c EXCEPT !.currentTime[video] = time, !.applied = time,
                   !.assigns = @ + 1, !.timers = @ + 1]
    ELSE [c EXCEPT !.error = TRUE]

\* mutant: the media's own position even while a seek is in flight
current_time_stale(c) == c.currentTime[video]

current_time(c) ==
    IF NotNull(c.seek_active) THEN c.seek_pending ELSE c.currentTime[video]

\* mutant: no early return while a seek is in flight
seek_nicely_unguarded(c, time) ==
    LET c1 == MediaPause(SetSlider(c, time))
        c2 == [c1 EXCEPT !.seek_pending = time, !.seek_active = time]
    IN  Assign(c2, time)

\* mutant: video.pause() ahead of the early return
seek_nicely_pause_first(c, time) ==
    LET c1 == MediaPause(SetSlider(c, time)) IN
    IF NotNull(c1.seek_active) THEN [c1 EXCEPT !.seek_pending = time]
    ELSE Assign([c1 EXCEPT !.seek_pending = time, !.seek_active = time],
                time)

\* video.currentTime = time throws a TypeError for a non-finite time, after
\* seek_pending and seek_active were assigned and before setTimeout.
seek_nicely(c, time) ==
    LET c1 == SetSlider(c, time) IN
    IF NotNull(c1.seek_active) THEN [c1 EXCEPT !.seek_pending = time]
    ELSE LET c2 == MediaPause(c1)
         IN  Assign([c2 EXCEPT !.seek_pending = time, !.seek_active = time],
                    time)

\* the 'seeking' class removed from every seek button there is
Unmark(c) ==
    [c EXCEPT !.seeking[video] = {b \in @ : ~Has(c, b)}]

\* mutant: the markers removed before the pending value is compared
seek_timeout_clears_first(c) ==
    LET changed == LooseNeq(c.seek_pending, c.seek_active)
        c1 == Unmark([c EXCEPT !.timers = @ - 1, !.seek_active = Null])
    IN  IF changed THEN seek_nicely(c1, c1.seek_pending) ELSE c1

\* the callback given to window.setTimeout
seek_timeout(c) ==
    LET changed == LooseNeq(c.seek_pending, c.seek_active)
        c1 == [c EXCEPT !.timers = @ - 1, !.seek_active = Null]
    IN  IF changed THEN seek_nicely(c1, c1.seek_pending)
        ELSE Unmark(c1)

\* if (key_target) key_target.focus()
key_focus(c) ==
    IF Has(c, "key_target") THEN [c EXCEPT !.focus = video] ELSE c

rewind(c) == seek_nicely(Mark(key_focus(c), "rewind"), Num(0))

play_pause(c) ==
    LET c1 == key_focus(c)
        c2 == IF Less(MinusClamp(c1.duration[video]), current_time(c1))
              THEN rewind(c1) ELSE c1
    IN  IF c2.paused[video] \/ Ended(c2) THEN MediaPlay(c2)
        ELSE MediaPause(c2)

\* mutant: the loop flag of the older keydown handler
loop_toggle_sticky(c) ==
    LET c1 == key_focus(c)
        on == c1.paused[video] \/ ~c1.loop[video]
        c2 == [c1 EXCEPT !.loop[video] = on]
        c3 == IF on THEN MediaPlay(c2) ELSE MediaPause(c2)
    IN  IF Has(c3, "loop") THEN [c3 EXCEPT !.looping[video] = on] ELSE c3

loop_toggle(c) ==
    LET c1 == key_focus(c)
        on == ~c1.loop[video]
        c2 == [c1 EXCEPT !.loop[video] = on]
        c3 == IF on THEN MediaPlay(c2) ELSE MediaPause(c2)
    IN  IF Has(c3, "loop") THEN [c3 EXCEPT !.looping[video] = on] ELSE c3

\* mutant: Math.floor in place of Math.ceil
PrevTarget_floor(t) ==
    IF t.kind = "num"
    THEN LET prev == FloorFrames(t.val) * FrameTicks - OffsetTicks
         IN  IF prev > ClampTicks THEN Num(prev) ELSE Num(0)
    ELSE IF t.kind = "inf" THEN Inf ELSE Num(0)

\* (Math.ceil(t * 3) - 1.5) / 3, clamped to 0 when not above 0.2
PrevTarget(t) ==
    IF t.kind = "num"
    THEN LET prev == CeilFrames(t.val) * FrameTicks - OffsetTicks
         IN  IF prev > ClampTicks THEN Num(prev) ELSE Num(0)
    ELSE IF t.kind = "inf" THEN Inf ELSE Num(0)

\* mutant: the next frame even beyond the end of the medium
NextTarget_unclamped(t, d) ==
    IF t.kind = "num"
    THEN Num(FloorFrames(t.val) * FrameTicks + OffsetTicks)
    ELSE t

\* (Math.floor(t * 3) + 1.5) / 3, or the duration when not below it by 0.2
NextTarget(t, d) ==
    LET next == IF t.kind = "num"
                THEN Num(FloorFrames(t.val) * FrameTicks + OffsetTicks)
                ELSE t
    IN  IF Less(next, MinusClamp(d)) THEN next ELSE d

prev_frame(c) ==
    LET c2 == Mark(key_focus(c), "prev")
    IN  seek_nicely(c2, PrevTarget(current_time(c2)))

next_frame(c) ==
    LET c2 == Mark(key_focus(c), "next")
    IN  seek_nicely(c2, NextTarget(current_time(c2), c2.duration[video]))

\* mutant: no isFinite(video.duration) test
forward_unguarded(c) ==
    LET c1 == key_focus(c) IN
    seek_nicely(Mark(c1, "forward"), c1.duration[video])

forward(c) ==
    LET c1 == key_focus(c) IN
    IF isFinite(c1.duration[video])
    THEN seek_nicely(Mark(c1, "forward"), c1.duration[video])
    ELSE c1

\* A listener bound for a video that has the control uses the variable of
\* the load handler, which refers to the last video's control: a TypeError
\* when that one is null.
\* The slider's min, max and step are not part of the state: max is the
\* duration whenever the duration is finite.
slider_from_video(c) ==
    IF ~isFinite(c.duration[video]) THEN c
    ELSE IF Has(c, "slider") THEN [c EXCEPT !.slider[video] = current_time(c)]
    ELSE [c EXCEPT !.error = TRUE]

\* the listener of a slider's 'input' event; slider_range.value is a string
\* that every use converts to the number it denotes
slider_input(c) ==
    IF Has(c, "slider") THEN seek_nicely(c, c.slider[video])
    ELSE [c EXCEPT !.error = TRUE]

\* mutant: 'paused' is left on the play button
on_play_adds_only(c) ==
    IF Has(c, "play")
    THEN [c EXCEPT !.play_class[video] = @ \cup {"playing"}]
    ELSE [c EXCEPT !.error = TRUE]

\* the listeners of a video's 'play' and 'pause' events
on_play(c) ==
    IF Has(c, "play")
    THEN [c EXCEPT !.play_class[video] = (@ \cup {"playing"}) \ {"paused"}]
    ELSE [c EXCEPT !.error = TRUE]

on_pause(c) ==
    IF Has(c, "play")
    THEN [c EXCEPT !.play_class[video] = (@ \cup {"paused"}) \ {"playing"}]
    ELSE [c EXCEPT !.error = TRUE]

\* the page a handler leaves
StoreCore(c) ==
    /\ paused' = c.paused
    /\ loop' = c.loop
    /\ currentTime' = c.currentTime
    /\ duration' = c.duration
    /\ seek_active' = c.seek_active
    /\ seek_pending' = c.seek_pending
    /\ timers' = c.timers
    /\ slider_value' = c.slider
    /\ seeking' = c.seeking
    /\ looping' = c.looping
    /\ focus' = c.focus
    /\ applied' = c.applied

\* The handlers of the 'play' and 'pause' events run in MediaSpec only:
\* elsewhere the events are left out.
Store(c) ==
    /\ StoreCore(c)
    /\ UNCHANGED <<controls, events, play_class, started, rt, sk>>

\* ----------------------------------------------------------- actions
\* The state when the load handler has run: every video paused at 0, its
\* metadata loaded or not, the focus on the key target focused last.
RtOff == [pc |-> "off", t |-> 0]

SkOff ==
    [pc |-> "off", seek_timeout_id |-> 0, timers |-> {}, issued |-> 0,
     cleared |-> 0, pend |-> 0]

\* play_button.classList.add(video.paused ? 'paused' : 'playing')
PlayClass(p, ctl) ==
    [v \in Videos |->
        IF "play" \in ctl[v] THEN {IF p[v] THEN "paused" ELSE "playing"}
        ELSE {}]

NoEvents == [v \in Videos |-> <<>>]

AllControls == [v \in Videos |-> Controls]

\* a listener of v's button, or of v's key target, is bound
Bound(v, button) == button \in controls[v] \/ "key_target" \in controls[v]

\* if (key_target) { ... key_target.focus(); ... } for each video in page
\* order: the focus ends on the last video that has a key target, and on
\* no video (NoFocus) when none has one
NoFocus == 0

LoadFocus(ctl) ==
    LET K == {v \in Videos : "key_target" \in ctl[v]}
    IN  IF K = {} THEN NoFocus ELSE CHOOSE v \in K : \A w \in K : w <= v

Init ==
    /\ paused = [v \in Videos |-> TRUE]
    /\ loop = [v \in Videos |-> FALSE]
    /\ currentTime = [v \in Videos |-> Num(0)]
    /\ duration \in [Videos -> Durations]
    /\ seek_active = Null
    /\ seek_pending = Null
    /\ timers = 0
    /\ slider_value = [v \in Videos |-> Num(0)]
    /\ seeking = [v \in Videos |-> {}]
    /\ looping = [v \in Videos |-> FALSE]
    /\ focus = LoadFocus(AllControls)
    /\ applied = Null
    /\ controls = AllControls
    /\ events = NoEvents
    /\ play_class = PlayClass(paused, controls)
    /\ started = FALSE
    /\ rt = RtOff
    /\ sk = SkOff

\* click on the video v or on its play button, or KeyP on its key target
PlayPause(v) == Store(play_pause(Page))

\* click on v's loop button, or KeyL
LoopToggle(v) ==
    /\ Bound(v, "loop")
    /\ Store(loop_toggle(Page))

\* click on v's rewind button, or KeyR
Rewind(v) ==
    /\ Bound(v, "rewind")
    /\ Store(rewind(Page))

\* click on v's prev button, or BracketLeft
PrevFrame(v) ==
    /\ Bound(v, "prev")
    /\ Store(prev_frame(Page))

\* click on v's next button, or BracketRight; on a stream the requests
\* grow without end and are followed up to MaxTime
NextFrame(v) ==
    /\ Bound(v, "next")
    /\ next_frame(Page).seek_pending.val <= MaxTime
    /\ Store(next_frame(Page))

\* click on v's forward button, or KeyF
Forward(v) ==
    /\ Bound(v, "forward")
    /\ Store(forward(Page))

\* the user moves v's slider to value: 'input' on v's slider
SliderInputs == Times

SliderInput(v, value) ==
    /\ "slider" \in controls[v]
    /\ Store(slider_input([Page EXCEPT !.slider[v] = Num(value)]))

\* a debounce timer fires
Timeout ==
    /\ timers > 0
    /\ Store(seek_timeout(Page))

\* slider_from_video is bound to the events of a video that has a slider
SliderListener(v, c) ==
    IF "slider" \in c.controls[v] THEN slider_from_video(c) ELSE c

\* v's metadata arrives: 'durationchange' on v
DurationChange(v, d) ==
    /\ duration[v] = NaN
    /\ d # NaN
    /\ Store(SliderListener(v, [Page EXCEPT !.duration[v] = d]))

\* v plays on to the time t; at the end it starts over when looping and
\* pauses otherwise: 'timeupdate' on v
PlayedTo(c, v, t) ==
    IF Num(t) = c.duration[v]
    THEN IF c.loop[v] THEN [c EXCEPT !.currentTime[v] = Num(0)]
         ELSE [c EXCEPT !.currentTime[v] = Num(t), !.paused[v] = TRUE,
                        !.events[v] = Append(@, "pause")]
    ELSE [c EXCEPT !.currentTime[v] = Num(t)]

TimeUpdate(v, t) ==
    /\ ~paused[v]
    /\ duration[v] # NaN
    /\ t > currentTime[v].val
    /\ isFinite(duration[v]) => t <= duration[v].val
    /\ Store(SliderListener(v, PlayedTo(Page, v, t)))

Next ==
    \/ \E v \in Videos : PlayPause(v)
    \/ \E v \in Videos : LoopToggle(v)
    \/ \E v \in Videos : Rewind(v)
    \/ \E v \in Videos : PrevFrame(v)
    \/ \E v \in Videos : NextFrame(v)
    \/ \E v \in Videos : Forward(v)
    \/ \E v \in Videos, value \in SliderInputs : SliderInput(v, value)
    \/ Timeout
    \/ \E v \in Videos, d \in Durations : DurationChange(v, d)
    \/ \E v \in Videos, t \in Times : TimeUpdate(v, t)

Spec == Init /\ [][Next]_vars

\* -------------------------------------------- the frame-step round trip
\* prev_frame() and then next_frame(), within one debounce interval, on one
\* video that is idle at the time t of a medium of finite duration.
FrameDurations == 1..(2 * Duration)

FrameInit ==
    /\ paused = [v \in Videos |-> TRUE]
    /\ loop = [v \in Videos |-> FALSE]
    /\ \E d \in FrameDurations, t \in 0..Duration :
          /\ t <= d
          /\ duration = [v \in Videos |-> Num(d)]
          /\ currentTime = [v \in Videos |-> IF v = video THEN Num(t) ELSE Num(0)]
          /\ slider_value = currentTime
          /\ rt = [pc |-> "start", t |-> t]
    /\ seek_active = Null
    /\ seek_pending = Null
    /\ timers = 0
    /\ seeking = [v \in Videos |-> {}]
    /\ looping = [v \in Videos |-> FALSE]
    /\ focus = LoadFocus(AllControls)
    /\ applied = Null
    /\ controls = AllControls
    /\ events = NoEvents
    /\ play_class = PlayClass(paused, controls)
    /\ started = FALSE
    /\ sk = SkOff

StoreFrame(c, pc) ==
    /\ StoreCore(c)
    /\ rt' = [rt EXCEPT !.pc = pc]
    /\ UNCHANGED <<controls, events, play_class, started, sk>>

FramePrev == rt.pc = "start" /\ StoreFrame(prev_frame(Page), "prev")

FrameNext == rt.pc = "prev" /\ StoreFrame(next_frame(Page), "done")

\* next_frame() alone, on the idle video
FrameNextOnly == rt.pc = "start" /\ StoreFrame(next_frame(Page), "next")

FrameStep == FramePrev \/ FrameNext \/ FrameNextOnly

FrameSpec == FrameInit /\ [][FrameStep]_vars

\* ------------------------------------------------------------ claims
Seeking == NotNull(seek_active)

Idle == ~NotNull(seek_active)

\* a handler bound on the video v or on one of its controls
Operation(v) ==
    \/ PlayPause(v)
    \/ LoopToggle(v)
    \/ Rewind(v)
    \/ PrevFrame(v)
    \/ NextFrame(v)
    \/ Forward(v)
    \/ \E value \in SliderInputs : SliderInput(v, value)

\* current_time() > video.duration - 0.2
NearEnd == Less(MinusClamp(duration[video]), current_time(Page))

\* C1: when a timer firing leaves no timer outstanding (the requests made
\* while it was pending are settled), the value last assigned to the media
\* position is the last requested time, the controller is Idle and the
\* 'seeking' markers are cleared.
C1_Coalesced ==
    [][(Timeout /\ timers' = 0)
         => /\ applied' = seek_pending'
            /\ seek_active' = Null
            /\ seeking'[video] = {}]_vars

\* C2: at most one debounce timer is outstanding; a timer is added only by
\* a handler that found seek_active null, and seek_active becomes null only
\* in a step that runs a timer callback.
C2_OneTimer ==
    /\ [](timers <= 1)
    /\ [][/\ timers' > timers => Idle
          /\ (Seeking /\ seek_active' = Null) => (timers > 0 /\ Timeout)]_vars

C2_Witness ==
    /\ timers = 1
    /\ Seeking
    /\ LooseNeq(seek_pending, seek_active)
    /\ seeking[video] = {"rewind", "next"}

\* C3: a handler bound on one video or its controls leaves every other
\* video's media state, slider and markers unchanged.
C3_Independent ==
    [][\A v \in Videos : Operation(v) =>
         \A w \in Videos \ {v} :
            /\ paused'[w] = paused[w]
            /\ loop'[w] = loop[w]
            /\ currentTime'[w] = currentTime[w]
            /\ slider_value'[w] = slider_value[w]
            /\ seeking'[w] = seeking[w]
            /\ looping'[w] = looping[w]]_vars

\* C4 as claimed: the controller is Seeking if and only if some seek button
\* carries 'seeking'.
C4_BusyIffSeeking == Seeking <=> seeking[video] # {}

\* C4 as amended: a marker is set only while Seeking; every seek request made
\* through a button (the rewind of play_pause included) sets that button's
\* marker; and a marker is removed only by the timer firing that returns to
\* Idle with the pending value unchanged.
C4_BusyImpliesSeeking ==
    /\ [](seeking[video] # {} => Seeking)
    /\ []( /\ "rewind" \in rewind(Page).seeking[video]
           /\ "prev" \in prev_frame(Page).seeking[video]
           /\ "next" \in next_frame(Page).seeking[video]
           /\ isFinite(duration[video])
                 => "forward" \in forward(Page).seeking[video]
           /\ NearEnd => "rewind" \in play_pause(Page).seeking[video] )
    /\ [][~(seeking[video] \subseteq seeking'[video])
            => /\ Timeout
               /\ ~LooseNeq(seek_pending, seek_active)
               /\ seek_active' = Null
               /\ seeking'[video] = {}]_vars

C4_Witness ==
    /\ seeking[video] = {"rewind"}
    /\ Seeking
    /\ timers = 1
    /\ ~paused[video]
    /\ currentTime[video] = Num(0)
    /\ isFinite(duration[video])

\* C5: in every reachable state prev_frame() and next_frame() request the
\* step from the pending time while Seeking, whatever the media's position,
\* and from the media's position while Idle.
C5_StepsFromPending ==
    LET from == IF Seeking THEN seek_pending ELSE currentTime[video] IN
    /\ next_frame(Page).seek_pending = NextTarget(from, duration[video])
    /\ prev_frame(Page).seek_pending = PrevTarget(from)

\* two steps past the position the media was given, in one debounce interval
C5_Witness ==
    /\ Seeking
    /\ timers = 1
    /\ seeking[video] = {"next"}
    /\ currentTime[video] = Num(OffsetTicks)
    /\ seek_active = Num(OffsetTicks)
    /\ seek_pending = Num(FrameTicks + OffsetTicks)
    /\ duration[video] = Num(Duration)

\* C6: in every reachable Seeking state a seek request changes seek_pending
\* and the slider value only: the page that slider input leaves differs in
\* nothing else, and the page a button leaves in nothing else but the
\* button's marker (and the focus).
Requested(c, time, button) ==
    [c EXCEPT !.seek_pending = time, !.slider[video] = time,
              !.seeking[video] = @ \cup button, !.focus = video]

C6_RequestWhileSeeking ==
    Seeking =>
       /\ \A v \in Videos, value \in SliderInputs :
             LET c == [Page EXCEPT !.slider[v] = Num(value)] IN
             slider_input(c) = [c EXCEPT !.seek_pending = c.slider[video]]
       /\ rewind(Page) = Requested(Page, Num(0), {"rewind"})
       /\ prev_frame(Page)
             = Requested(Page, prev_frame(Page).seek_pending, {"prev"})
       /\ next_frame(Page)
             = Requested(Page, next_frame(Page).seek_pending, {"next"})
       /\ isFinite(duration[video])
             => forward(Page) = Requested(Page, duration[video], {"forward"})

\* the media plays on, untouched by the request that a timer has yet to apply
C6_Witness ==
    /\ Seeking
    /\ timers = 1
    /\ ~paused[video]
    /\ seeking[video] = {}
    /\ seek_active = Num(0)
    /\ seek_pending = Num(TimeStep)
    /\ slider_value[video] = Num(TimeStep)
    /\ currentTime[video] = Num(0)

\* C7: play_pause() with current_time() > duration - 0.2 requests time 0 and
\* leaves the media playing.
C7_RestartsNearEnd ==
    [][\A v \in Videos : (NearEnd /\ PlayPause(v))
         => (seek_pending' = Num(0) /\ ~paused'[video])]_vars

\* C8: in every reachable state with a duration that is not finite, forward()
\* changes neither the media, nor the seek state, nor the slider, nor a
\* marker: the page it leaves differs in the focus at most.
C8_ForwardNoOp ==
    ~isFinite(duration[video])
        => forward(Page) = [Page EXCEPT !.focus = video]

\* a seek in flight on a stream: what forward() has to leave alone
C8_Witness ==
    /\ duration[video] = Inf
    /\ Seeking
    /\ timers = 1
    /\ LooseNeq(seek_pending, seek_active)
    /\ seeking[video] = {"next"}
    /\ focus = video

\* C9: while the controller is Seeking or a marker is set, a debounce timer
\* is outstanding: with no further request it is the timer that returns the
\* controller to Idle and removes the markers.
C9_BusyCleared == (Seeking \/ seeking[video] # {}) => timers > 0

\* C10 as claimed: from a time that is no multiple of a third of a second,
\* prev_frame() then next_frame() request a time within a third of a second.
Dist(a, b) == IF a < b THEN b - a ELSE a - b

C10_RoundTrip ==
    (rt.pc = "done" /\ rt.t % FrameTicks # 0)
        => Dist(seek_pending.val, rt.t) <= FrameTicks

\* C10 as amended: within a third of a second when the time is at least a
\* sixth of a second and next_frame() does not request the duration.
C10_RoundTripAmended ==
    (/\ rt.pc = "done"
     /\ rt.t % FrameTicks # 0
     /\ 2 * rt.t >= FrameTicks
     /\ seek_pending # duration[video])
        => Dist(seek_pending.val, rt.t) <= FrameTicks

C10_Witness ==
    /\ rt.pc = "done"
    /\ rt.t = 2 * FrameTicks + 1
    /\ seek_pending = Num(FrameTicks + OffsetTicks)
    /\ currentTime[video] = Num(OffsetTicks)

\* C12: loop_toggle() leaves the loop flag negated, the media playing when
\* the flag is now true and paused when it is now false, and the loop
\* button with the class 'looping' exactly when the flag is true.
C12_LoopToggle ==
    LET c == loop_toggle(Page) IN
    /\ c.loop[video] = ~loop[video]
    /\ c.paused[video] = ~c.loop[video]
    /\ c.looping[video] = c.loop[video]
    /\ c.error = FALSE

\* the loop was switched on during a seek and the media plays
C12_Witness ==
    /\ loop[video] /\ looping[video] /\ ~paused[video]
    /\ Seeking

\* what the handlers other than the timer callback would leave: those of the
\* user's operations and of the media events
HandlerResults ==
    {play_pause(Page), loop_toggle(Page), rewind(Page), prev_frame(Page),
     next_frame(Page), forward(Page), slider_from_video(Page)}
    \cup {slider_input([Page EXCEPT !.slider[v] = Num(value)]) :
            v \in Videos, value \in SliderInputs}

\* C13: the controller assigns video.currentTime only in a seek request
\* received when Idle or in a timer callback, at most once in either; an
\* assignment leaves the controller Seeking with its timer outstanding and
\* only the timer callback ends Seeking, so a timer fires between any two
\* assignments.
C13_AssignIdleOrTimer ==
    /\ \A c \in HandlerResults :
          /\ c.assigns <= (IF Idle THEN 1 ELSE 0)
          /\ Seeking => NotNull(c.seek_active)
          /\ c.assigns = 1 => NotNull(c.seek_active) /\ c.timers = 1
    /\ timers > 0 =>
          LET c == seek_timeout(Page) IN
          /\ c.assigns <= 1
          /\ c.assigns = 1 => NotNull(c.seek_active) /\ c.timers = 1

\* a request made during a seek has been applied by the timer callback
C13_Witness ==
    /\ Seeking /\ timers = 1
    /\ seeking[video] = {"rewind", "next"}
    /\ seek_active = Num(OffsetTicks) /\ applied = seek_active
    /\ currentTime[video] = applied

\* C14: in every reachable state in which the video has a slider, a finite
\* duration and a seek in flight, the value of the slider equals
\* seek_pending, and slider_from_video (on 'timeupdate' or 'durationchange')
\* leaves it so.
C14_SliderShowsPending ==
    (Has(Page, "slider") /\ isFinite(duration[video]) /\ Seeking) =>
        /\ ~LooseNeq(slider_value[video], seek_pending)
        /\ ~LooseNeq(slider_from_video(Page).slider[video], seek_pending)

\* the requests of the four buttons for the page
ButtonRequests ==
    {rewind(Page).seek_pending, prev_frame(Page).seek_pending,
     next_frame(Page).seek_pending, forward(Page).seek_pending}

\* C15: for a finite duration d and current_time() = t in [0, d],
\* prev_frame() requests a time in [0, t) when t > 0 and 0 when t = 0,
\* next_frame() requests a time in (t, d] when t < d; from t = 1 s of a
\* medium longer than 1.7 s next_frame() requests 1.5 s; and every button
\* requests a time in [0, d].  A target whose ticks are those of d - 0.2 is
\* clamped or not as the doubles compare.
C15_StrictInRange ==
    LET t == current_time(Page).val
        d == duration[video].val
        p == prev_frame(Page).seek_pending
        n == next_frame(Page).seek_pending
    IN  (rt.pc \in {"start", "prev"} /\ t \in 0..d) =>
            /\ p.kind = "num" /\ n.kind = "num"
            /\ t > 0 => p.val >= 0 /\ p.val < t
            /\ t = 0 => p.val = 0
            /\ p.val <= ClampTicks => p.val = 0
            /\ t < d => n.val > t /\ n.val <= d
            /\ n.val > d - ClampTicks => n.val = d
            /\ (t = 3 * FrameTicks /\ d > 3 * FrameTicks + OffsetTicks + ClampTicks)
                  => n.val = 3 * FrameTicks + OffsetTicks
            /\ \A r \in ButtonRequests :
                  r.kind = "num" /\ r.val >= 0 /\ r.val <= d

\* next_frame() at 1 s has requested 1.5 s
C15_Witness ==
    /\ rt = [pc |-> "next", t |-> 3 * FrameTicks]
    /\ seek_pending = Num(3 * FrameTicks + OffsetTicks)
    /\ seeking[video] = {"next"}

\* C16: the controller is Seeking exactly when one debounce timer is
\* outstanding: seek_nicely never leaves seek_active set without a timer,
\* whatever time it is given.
C16_SeekingIffTimer == Seeking <=> timers = 1

\* ------------------------------------- the 'play' and 'pause' events
\* The operations of the controller, playback reaching the end, and the
\* listeners of the 'play' and 'pause' events these leave waiting, on a
\* page whose videos have loaded and may play from the start (autoplay).
MediaInit ==
    /\ paused \in [Videos -> BOOLEAN]
    /\ loop = [v \in Videos |-> FALSE]
    /\ currentTime = [v \in Videos |-> Num(0)]
    /\ duration = [v \in Videos |-> Num(Duration)]
    /\ seek_active = Null
    /\ seek_pending = Null
    /\ timers = 0
    /\ slider_value = [v \in Videos |-> Num(0)]
    /\ seeking = [v \in Videos |-> {}]
    /\ looping = [v \in Videos |-> FALSE]
    /\ focus = LoadFocus(AllControls)
    /\ applied = Null
    /\ controls = AllControls
    /\ events = NoEvents
    /\ play_class = PlayClass(paused, controls)
    /\ started = FALSE
    /\ rt = RtOff
    /\ sk = SkOff

\* started: the user's last operation was a play_pause() or loop_toggle()
\* that left the media playing; every seek request resets it
StoreMedia(c, st) ==
    /\ \A v \in Videos : Len(c.events[v]) <= MaxEvents
    /\ StoreCore(c)
    /\ events' = c.events
    /\ play_class' = c.play_class
    /\ started' = st
    /\ UNCHANGED <<controls, rt, sk>>

MediaPlayPause ==
    StoreMedia(play_pause(Page), ~play_pause(Page).paused[video])

MediaLoopToggle ==
    StoreMedia(loop_toggle(Page), ~loop_toggle(Page).paused[video])

MediaRewind == StoreMedia(rewind(Page), FALSE)

MediaPrevFrame == StoreMedia(prev_frame(Page), FALSE)

MediaNextFrame == StoreMedia(next_frame(Page), FALSE)

MediaForward == StoreMedia(forward(Page), FALSE)

\* 'input' on v's slider
MediaSliderInput(v, value) ==
    StoreMedia(slider_input([Page EXCEPT !.slider[v] = Num(value)]), FALSE)

MediaTimeout == timers > 0 /\ StoreMedia(seek_timeout(Page), started)

\* v plays on to its end
MediaEnd(v) ==
    /\ ~paused[v]
    /\ currentTime[v] # duration[v]
    /\ StoreMedia(SliderListener(v, PlayedTo(Page, v, duration[v].val)),
                  started)

\* the listener of the oldest event of v that waits
MediaListener(v, c) ==
    IF "play" \notin c.controls[v] THEN c
    ELSE IF Head(events[v]) = "play" THEN on_play(c) ELSE on_pause(c)

MediaEvent(v) ==
    /\ events[v] # <<>>
    /\ StoreMedia(MediaListener(v, [Page EXCEPT !.events[v] = Tail(@)]),
                  started)

MediaStep ==
    \/ MediaPlayPause
    \/ MediaLoopToggle
    \/ MediaRewind
    \/ MediaPrevFrame
    \/ MediaNextFrame
    \/ MediaForward
    \/ \E v \in Videos, value \in SliderInputs : MediaSliderInput(v, value)
    \/ MediaTimeout
    \/ \E v \in Videos : MediaEnd(v)
    \/ \E v \in Videos : MediaEvent(v)

MediaSpec == MediaInit /\ [][MediaStep]_vars

\* C17: once play_pause() or loop_toggle() has left the media playing and
\* the user has done nothing since, a timer callback does not pause it.
C17_TimerNeverPauses ==
    [][(MediaTimeout /\ started /\ ~paused[video]) => ~paused'[video]]_vars

\* C18: the play button carries exactly one of 'playing' and 'paused' in
\* every reachable state, 'playing' once the listener of a 'play' event
\* has run and 'paused' once the listener of a 'pause' event has run.
C18_OneMarker ==
    Has(Page, "play") =>
        /\ play_class[video] \in {{"playing"}, {"paused"}}
        /\ on_play(Page).play_class[video] = {"playing"}
        /\ on_pause(Page).play_class[video] = {"paused"}
        /\ \A v \in Videos :
              events[v] # <<>> =>
                 MediaListener(v, Page).play_class[video] =
                    {IF Head(events[v]) = "play" THEN "playing" ELSE "paused"}

\* the media was paused by a seek and started again, and the listeners of
\* the events have run
C18_Witness ==
    /\ seeking[video] = {"rewind"}
    /\ ~paused[video]
    /\ events[video] = <<>>
    /\ play_class[video] = {"playing"}
    /\ Seeking

\* ------------------------------------------------- absent controls
\* The page of Spec with some of the controls of a video missing from the
\* markup: every control there, no slider, no play button, or none at all.
ControlChoices ==
    {Controls, Controls \ {"slider"}, Controls \ {"play"}, {}}

ControlsInit ==
    /\ paused = [v \in Videos |-> TRUE]
    /\ loop = [v \in Videos |-> FALSE]
    /\ currentTime = [v \in Videos |-> Num(0)]
    /\ duration \in [Videos -> Durations]
    /\ seek_active = Null
    /\ seek_pending = Null
    /\ timers = 0
    /\ slider_value = [v \in Videos |-> Num(0)]
    /\ seeking = [v \in Videos |-> {}]
    /\ looping = [v \in Videos |-> FALSE]
    /\ controls \in [Videos -> ControlChoices]
    /\ focus = LoadFocus(controls)
    /\ applied = Null
    /\ events = NoEvents
    /\ play_class = PlayClass(paused, controls)
    /\ started = FALSE
    /\ rt = RtOff
    /\ sk = SkOff

ControlsSpec == ControlsInit /\ [][Next]_vars

\* the listeners bound for the video v and its controls whose event can
\* occur now
Listeners(v) ==
    {"play_pause"}
    \cup {b \in {"loop", "rewind", "prev", "next", "forward"} : Bound(v, b)}
    \cup {b \in {"slider", "play"} : b \in controls[v]}
    \cup {h \in {"timer"} : timers > 0}
    \cup {h \in {"durationchange"} : duration[v] = NaN}
    \cup {h \in {"timeupdate"} : ~paused[v] /\ duration[v] # NaN}

\* what the listener h bound for v can leave of the page c
Listener(h, v, c) ==
    CASE h = "play_pause" -> {play_pause(c)}
      [] h = "loop" -> {loop_toggle(c)}
      [] h = "rewind" -> {rewind(c)}
      [] h = "prev" -> {prev_frame(c)}
      [] h = "next" -> {next_frame(c)}
      [] h = "forward" -> {forward(c)}
      [] h = "slider" ->
            {slider_input([c EXCEPT !.slider[v] = Num(value)]) :
                value \in SliderInputs}
      [] h = "play" -> {on_play(c), on_pause(c)}
      [] h = "timer" -> {seek_timeout(c)}
      [] h = "durationchange" ->
            {SliderListener(v, [c EXCEPT !.duration[v] = d]) :
                d \in Durations \ {NaN}}
      [] OTHER ->
            {SliderListener(v, PlayedTo(c, v, t)) :
                t \in {t \in Times : t > c.currentTime[v].val}}

\* the media and the seek state of a page
MediaAndSeek(c) ==
    <<c.paused, c.loop, c.currentTime, c.duration, c.seek_active,
      c.seek_pending, c.timers>>

\* C11: whatever controls the videos have, every listener ends without an
\* exception and leaves the media and the seek state as it would with
\* every control there.
C11_AbsentControlsHarmless ==
    \A v \in Videos : \A h \in Listeners(v) :
        /\ \A c \in Listener(h, v, Page) : ~c.error
        /\ {MediaAndSeek(c) : c \in Listener(h, v, Page)} =
           {MediaAndSeek(c) :
               c \in Listener(h, v, [Page EXCEPT !.controls = AllControls])}

\* ------------------------------------------- the 'seeked' variant
\* The variant of the script that assigns video.currentTime in the
\* handlers themselves and clears the 'seeking' markers 150 ms after the
\* media's 'seeked' event, on a page whose videos have loaded.  sk holds,
\* for the page: seek_timeout_id (0 for null or undefined;
\* window.setTimeout returns positive ids, here the number of timers
\* issued so far), the timers outstanding, the 'seeked' events that the
\* media has yet to fire, and the number of clearTimeout calls that
\* cancelled a timer.  The markers are the 'seeking' classes of the page.
SkInit ==
    /\ paused = [v \in Videos |-> TRUE]
    /\ loop = [v \in Videos |-> FALSE]
    /\ currentTime = [v \in Videos |-> Num(0)]
    /\ duration = [v \in Videos |-> Num(Duration)]
    /\ seek_active = Null
    /\ seek_pending = Null
    /\ timers = 0
    /\ slider_value = [v \in Videos |-> Num(0)]
    /\ seeking = [v \in Videos |-> {}]
    /\ looping = [v \in Videos |-> FALSE]
    /\ focus = LoadFocus(AllControls)
    /\ applied = Null
    /\ controls = AllControls
    /\ events = NoEvents
    /\ play_class = PlayClass(paused, controls)
    /\ started = FALSE
    /\ rt = RtOff
    /\ sk = [SkOff EXCEPT !.pc = "on"]

\* the page with the timer state of the variant: what its handlers read
\* and write
SkPage == [c |-> Page, s |-> sk]

\* The media starts a seek, which ends in a 'seeked' event; a seek still in
\* progress is aborted, unless it has just completed (another is TRUE).
SkSeekStarted(s, another) ==
    [s EXCEPT !.pend = IF another \/ @ = 0 THEN @ + 1 ELSE @]

\* video.currentTime = t
sk_assign(p, t, another) ==
    [c |-> [p.c EXCEPT !.applied = Num(t),
                       !.currentTime[video] =
                           Num(MediaSeek(t, p.c.duration[video].val))],
     s |-> SkSeekStarted(p.s, another)]

\* video.play(): media that has ended seeks to the start
sk_play(p, another) ==
    [c |-> MediaPlay(p.c),
     s |-> IF Ended(p.c) THEN SkSeekStarted(p.s, another) ELSE p.s]

sk_rewind(p, another) ==
    sk_assign([p EXCEPT !.c = MediaPause(Mark(key_focus(p.c), "rewind"))],
              0, another)

sk_play_pause(p, another) ==
    LET p1 == [p EXCEPT !.c = key_focus(p.c)]
        p2 == IF Less(MinusClamp(p1.c.duration[video]),
                      p1.c.currentTime[video])
              THEN sk_rewind(p1, another) ELSE p1
    IN  IF p2.c.paused[video] \/ Ended(p2.c) THEN sk_play(p2, another)
        ELSE [p2 EXCEPT !.c = MediaPause(p2.c)]

sk_loop_toggle(p, another) ==
    LET c1 == key_focus(p.c)
        on == ~c1.loop[video]
        p2 == [p EXCEPT !.c = [c1 EXCEPT !.loop[video] = on]]
        p3 == IF on THEN sk_play(p2, another)
              ELSE [p2 EXCEPT !.c = MediaPause(p2.c)]
    IN  IF Has(p3.c, "loop") THEN [p3 EXCEPT !.c.looping[video] = on]
        ELSE p3

\* (Math.ceil(video.currentTime * 3) - 1.2) / 3
sk_prev_frame(p, another) ==
    LET c1 == MediaPause(Mark(key_focus(p.c), "prev"))
    IN  sk_assign([p EXCEPT !.c = c1],
                  CeilFrames(c1.currentTime[video].val) * FrameTicks
                      - SeekedOffsetTicks,
                  another)

\* (Math.floor(video.currentTime * 3) + 1.2) / 3
sk_next_frame(p, another) ==
    LET c1 == MediaPause(Mark(key_focus(p.c), "next"))
    IN  sk_assign([p EXCEPT !.c = c1],
                  FloorFrames(c1.currentTime[video].val) * FrameTicks
                      + SeekedOffsetTicks,
                  another)

sk_forward(p, another) ==
    LET c1 == key_focus(p.c) IN
    IF isFinite(c1.duration[video])
    THEN sk_assign([p EXCEPT !.c = MediaPause(Mark(c1, "forward"))],
                   c1.duration[video].val, another)
    ELSE [p EXCEPT !.c = c1]

\* mutant: no window.clearTimeout
seeked_uncancelled(s) ==
    LET id == s.issued + 1 IN
    [s EXCEPT !.timers = @ \cup {id}, !.seek_timeout_id = id,
              !.issued = id, !.pend = @ - 1]

\* the listener of 'seeked'
seeked(s) ==
    LET s1 == IF s.seek_timeout_id # 0
              THEN [s EXCEPT !.timers = @ \ {s.seek_timeout_id},
                             !.cleared = IF s.seek_timeout_id \in s.timers
                                         THEN @ + 1 ELSE @]
              ELSE s
        id == s1.issued + 1
    IN  [s1 EXCEPT !.timers = @ \cup {id}, !.seek_timeout_id = id,
                   !.issued = id, !.pend = @ - 1]

\* the callback given to window.setTimeout by the listener of 'seeked'
seeked_timeout(p, id) ==
    [c |-> Unmark(p.c),
     s |-> [p.s EXCEPT !.timers = @ \ {id}, !.seek_timeout_id = 0]]

\* The media plays on to its end: when looping it seeks to the start, a
\* seek of the element itself, and otherwise it pauses there.
sk_ended(p, another) ==
    IF p.c.loop[video]
    THEN [c |-> [p.c EXCEPT !.currentTime[video] = Num(0)],
          s |-> SkSeekStarted(p.s, another)]
    ELSE [p EXCEPT !.c = PlayedTo(p.c, video, p.c.duration[video].val)]

\* the page a handler of the variant leaves; the 'seeked' events and the
\* timers are followed up to MaxSeeked of them
StoreSk(p) ==
    /\ sk.pc = "on"
    /\ \A v \in Videos : Len(p.c.events[v]) <= MaxEvents
    /\ p.s.issued + p.s.pend <= MaxSeeked
    /\ StoreCore(p.c)
    /\ events' = p.c.events
    /\ play_class' = p.c.play_class
    /\ sk' = p.s
    /\ UNCHANGED <<controls, started, rt>>

\* click on the video or on the play button, or KeyP
SkPlayPause(another) == StoreSk(sk_play_pause(SkPage, another))

\* click on the loop button, or KeyL
SkLoopToggle(another) == StoreSk(sk_loop_toggle(SkPage, another))

\* click on the rewind button, or KeyR
SkRewind(another) == StoreSk(sk_rewind(SkPage, another))

\* click on the prev button, or BracketLeft
SkPrevFrame(another) == StoreSk(sk_prev_frame(SkPage, another))

\* click on the next button, or BracketRight
SkNextFrame(another) == StoreSk(sk_next_frame(SkPage, another))

\* click on the forward button, or KeyF
SkForward(another) == StoreSk(sk_forward(SkPage, another))

\* the media fires 'seeked'
SkSeeked ==
    /\ sk.pend > 0
    /\ StoreSk([SkPage EXCEPT !.s = seeked(sk)])

\* the timer id fires
SkTimeout(id) ==
    /\ id \in sk.timers
    /\ StoreSk(seeked_timeout(SkPage, id))

\* the media plays on to its end
SkEnded(another) ==
    /\ ~paused[video]
    /\ loop[video] \/ currentTime[video] # duration[video]
    /\ StoreSk(sk_ended(SkPage, another))

\* the listener of the oldest 'play' or 'pause' event of v that waits
SkEvent(v) ==
    /\ events[v] # <<>>
    /\ StoreSk([SkPage EXCEPT
                   !.c = MediaListener(v, [Page EXCEPT !.events[v] = Tail(@)])])

SkStep ==
    \/ \E another \in BOOLEAN : SkPlayPause(another)
    \/ \E another \in BOOLEAN : SkLoopToggle(another)
    \/ \E another \in BOOLEAN : SkRewind(another)
    \/ \E another \in BOOLEAN : SkPrevFrame(another)
    \/ \E another \in BOOLEAN : SkNextFrame(another)
    \/ \E another \in BOOLEAN : SkForward(another)
    \/ SkSeeked
    \/ \E id \in 1..MaxSeeked : SkTimeout(id)
    \/ \E another \in BOOLEAN : SkEnded(another)
    \/ \E v \in Videos : SkEvent(v)

SeekedSpec == SkInit /\ [][SkStep]_vars

\* the pages the handlers of the user's operations and the end of playback
\* can leave
SkHandlerResults ==
    UNION {{sk_play_pause(SkPage, another), sk_loop_toggle(SkPage, another),
            sk_rewind(SkPage, another), sk_prev_frame(SkPage, another),
            sk_next_frame(SkPage, another), sk_forward(SkPage, another),
            sk_ended(SkPage, another)} : another \in BOOLEAN}

\* C19: at most one marker-clear timer is outstanding, the one the listener
\* of the most recent 'seeked' event scheduled, and seek_timeout_id names
\* it; only its callback takes a 'seeking' marker away: the listener of
\* 'seeked' leaves the markers and replaces the timer, and no operation of
\* the user, nor the end of playback, removes a marker or touches a timer.
C19_OneClearTimer ==
    /\ Cardinality(sk.timers) <= 1
    /\ sk.timers \subseteq {sk.issued}
    /\ sk.timers # {} => sk.seek_timeout_id \in sk.timers
    /\ sk.timers = {} => sk.seek_timeout_id = 0
    /\ sk.pend > 0 => seeked(sk).timers = {sk.issued + 1}
    /\ \A p \in SkHandlerResults :
          /\ seeking[video] \subseteq p.c.seeking[video]
          /\ p.s.timers = sk.timers
          /\ p.s.seek_timeout_id = sk.seek_timeout_id
    /\ \A id \in sk.timers :
          seeked_timeout(SkPage, id).c.seeking[video] = {}

\* a second 'seeked' event has cancelled the timer of the first
C19_Witness ==
    /\ sk.cleared = 1
    /\ sk.timers = {2}
    /\ sk.seek_timeout_id = 2
    /\ seeking[video] = {"prev", "next"}

\* ------------------------------------------ the older keydown handler
\* The script that binds one keydown listener to every video; the listener
\* acts on event.currentTarget, the video v that has the focus.
LegacyTimes == {t \in 0..Duration : t % (TimeStep \div 6) = 0}

LegacyCodes == {"ArrowLeft", "ArrowRight", "KeyL", "KeyP"}

\* the keys go to the video that has the focus; the others stay paused
LegacyInit ==
    /\ focus \in Videos
    /\ \E p \in BOOLEAN :
          paused = [v \in Videos |-> IF v = focus THEN p ELSE TRUE]
    /\ \E l \in BOOLEAN :
          loop = [v \in Videos |-> IF v = focus THEN l ELSE FALSE]
    /\ \E t \in LegacyTimes :
          currentTime = [v \in Videos |-> IF v = focus THEN Num(t) ELSE Num(0)]
    /\ duration = [v \in Videos |-> Num(Duration)]
    /\ seek_active = Null
    /\ seek_pending = Null
    /\ timers = 0
    /\ slider_value = [v \in Videos |-> Num(0)]
    /\ seeking = [v \in Videos |-> {}]
    /\ looping = [v \in Videos |-> FALSE]
    /\ applied = Null
    /\ controls = AllControls
    /\ events = NoEvents
    /\ play_class = PlayClass(paused, controls)
    /\ started = FALSE
    /\ rt = RtOff
    /\ sk = SkOff

\* video.currentTime = t on the video v
LegacyAssign(c, v, t) ==
    [c EXCEPT !.applied = Num(t),
              !.currentTime[v] = Num(MediaSeek(t, c.duration[v].val))]

\* mutant: KeyL negates the loop flag whether paused or not
legacy_keydown_toggle(c, v, code) ==
    IF code = "ArrowLeft"
    THEN LegacyAssign([c EXCEPT !.paused[v] = TRUE], v,
                      c.currentTime[v].val - FrameTicks)
    ELSE IF code = "ArrowRight"
    THEN LegacyAssign([c EXCEPT !.paused[v] = TRUE], v,
                      c.currentTime[v].val + FrameTicks)
    ELSE IF code = "KeyL"
    THEN LET on == ~c.loop[v]
         IN  [c EXCEPT !.loop[v] = on, !.paused[v] = ~on]
    ELSE c

\* the keydown listener
legacy_keydown(c, v, code) ==
    IF code = "ArrowLeft"
    THEN LegacyAssign([c EXCEPT !.paused[v] = TRUE], v,
                      c.currentTime[v].val - FrameTicks)
    ELSE IF code = "ArrowRight"
    THEN LegacyAssign([c EXCEPT !.paused[v] = TRUE], v,
                      c.currentTime[v].val + FrameTicks)
    ELSE IF code = "KeyL"
    THEN LET on == c.paused[v] \/ ~c.loop[v]
         IN  [c EXCEPT !.loop[v] = on, !.paused[v] = ~on]
    ELSE c

StoreLegacy(c) ==
    /\ StoreCore(c)
    /\ UNCHANGED <<controls, events, play_class, started, rt, sk>>

LegacyKey(code) == StoreLegacy(legacy_keydown(Page, focus, code))

LegacyStep == \E code \in LegacyCodes : LegacyKey(code)

LegacySpec == LegacyInit /\ [][LegacyStep]_vars

\* KeyL on the video v: playback is on exactly when the loop flag is now
\* true; paused, the flag becomes true; playing, the flag is negated
LegacyKeyL(v) ==
    LET c == legacy_keydown(Page, v, "KeyL") IN
    /\ c.paused[v] = ~c.loop[v]
    /\ paused[v] => c.loop[v]
    /\ ~paused[v] => c.loop[v] = ~loop[v]
    /\ c.currentTime = currentTime

\* C20: KeyL requests playback exactly when the loop flag it leaves is true,
\* sets the flag when the media is paused and negates it when the media
\* plays; ArrowLeft and ArrowRight pause the media and move its position by
\* exactly one third of a second.
C20_LegacyKeys ==
    \A v \in {focus} :
        LET l == legacy_keydown(Page, v, "ArrowLeft")
            r == legacy_keydown(Page, v, "ArrowRight")
        IN  /\ LegacyKeyL(v)
            /\ l.paused[v] /\ r.paused[v]
            /\ l.currentTime[v].val = currentTime[v].val - FrameTicks
            /\ r.currentTime[v].val = currentTime[v].val + FrameTicks

\* C20, amended: ArrowLeft and ArrowRight pause the media and assign the
\* position less or plus one third of a second; the position moves by
\* exactly that when the assigned time lies within [0, duration] and to 0
\* or to the duration otherwise.
C20_LegacyKeysAmended ==
    \A v \in {focus} :
        LET l == legacy_keydown(Page, v, "ArrowLeft")
            r == legacy_keydown(Page, v, "ArrowRight")
            t == currentTime[v].val
            d == duration[v].val
        IN  /\ LegacyKeyL(v)
            /\ l.paused[v] /\ r.paused[v]
            /\ l.loop = loop /\ r.loop = loop
            /\ l.applied = Num(t - FrameTicks)
            /\ r.applied = Num(t + FrameTicks)
            /\ l.currentTime[v] = IF t >= FrameTicks THEN l.applied ELSE Num(0)
            /\ r.currentTime[v] = IF t + FrameTicks <= d THEN r.applied ELSE Num(d)

\* ArrowLeft within one third of a second of the start has left the media
\* at 0
C20_Witness ==
    /\ applied = Num((TimeStep \div 6) - FrameTicks)
    /\ currentTime[focus] = Num(0)
    /\ paused[focus]

====
